---------------------------- MODULE Spec2Model ----------------------------
(***************************************************************************)
(* A model of three programs of the repository:                            *)
(*   - src/src/humaneval_to_go.py : translate_type and GoTranslator        *)
(*   - src/src/summary_generator.py : makeSummary                          *)
(*   - src/automodel.py : Model._remove_padding_and_stop_at_special_tokens *)
(* Python values are records [pytype, text]; annotation ASTs are records   *)
(* tagged by their node class.  Go source text is built as TLA+ strings.   *)
(***************************************************************************)
EXTENDS Integers, Sequences, FiniteSets, TLC

VARIABLES
    \* ---- GoTranslator (humaneval_to_go.py)
    pc,                 \* position of the run: "idle", "loaded", "tests", "skipped"
    problem,            \* the problem handed to translate_prompt
    self_type,          \* GoTranslator.type; <<>> stands for None
    prev_comp_types,    \* GoTranslator.prev_comp_types
    ret,                \* the last call of a translator method and what it returned
    src,                \* the source literal of the last gen_* call
    recorded,           \* history: has a gen_list/gen_dict run in this problem
    list_type,          \* history: element type of the last non-empty list of this problem
    dict_types,         \* history: key/value types of the last non-empty dict of this problem
    first_recorded,     \* history: prev_comp_types right after the first gen_list/gen_dict of this problem
    \* ---- makeSummary (summary_generator.py)
    dir_exists,         \* dir.exists()
    out_dir_exists,     \* ../model_results exists
    files,              \* sorted(dir.glob("*.results.yaml")), each file's results counted by status
    csv,                \* <model>-keep-summary.csv: whether it exists, and its rows
    sret,               \* the last makeSummary call: its flags and what it returned
    \* ---- Model (automodel.py)
    tokenizer,          \* pad_token_id, bos_token_id, eos_token_id, all_special_ids
    token_id_list,      \* the argument of _remove_padding_and_stop_at_special_tokens
    tret                \* its result

go_vars == <<pc, problem, self_type, prev_comp_types, ret, src, recorded,
             list_type, dict_types, first_recorded>>
sum_vars == <<dir_exists, out_dir_exists, files, csv, sret>>
tok_vars == <<tokenizer, token_id_list, tret>>
vars == <<go_vars, sum_vars, tok_vars>>

(***************************************************************************)
(* Python values                                                           *)
(***************************************************************************)
PyVal(t, s) == [pytype |-> t, text |-> s]
PyNone == PyVal("NoneType", "None")
PyStr(s) == PyVal("str", s)
PyTrue == PyVal("bool", "True")
PyFalse == PyVal("bool", "False")

\* a call's outcome
Return(v) == [status |-> "return", val |-> v]
Raise(msg) == [status |-> "raise", val |-> PyStr(msg)]

\* ", ".join(l) and the like, on a sequence of strings
RECURSIVE Join(_, _)
Join(sep, l) ==
    IF l = <<>> THEN ""
    ELSE IF Len(l) = 1 THEN l[1]
    ELSE l[1] \o sep \o Join(sep, Tail(l))

(***************************************************************************)
(* Annotation ASTs (module ast)                                            *)
(***************************************************************************)
Name(id) == [node |-> "Name", id |-> id]
Subscript(id, slice) == [node |-> "Subscript", id |-> id, slice |-> slice]
Tuple(elts) == [node |-> "Tuple", elts |-> elts]
StrPattern(s) == [node |-> "str", s |-> s]      \* a bare Python str, as translate_type(k) receives
Missing == [node |-> "None"]                    \* arg.annotation is None

Ok(s) == [ok |-> TRUE, val |-> s]
Err(msg) == [ok |-> FALSE, val |-> msg]

\* translate_type(t): Ok(go type) or Err(the Exception's message)
RECURSIVE translate_type(_)
translate_type(t) ==
    CASE t.node = "Subscript" ->
            ( CASE t.id = "List" ->
                    LET e == translate_type(t.slice)
                    IN  IF e.ok THEN Ok("[]" \o e.val) ELSE e
                [] t.id = "Union" -> Err("Union unsupported")
                [] t.id = "Tuple" -> Err("Tuple unsupported")
                [] t.id = "Dict" ->
                    IF /\ t.slice.node = "Tuple"
                       /\ Len(t.slice.elts) = 2
                       /\ t.slice.elts[1].node = "Name"
                       /\ t.slice.elts[2].node = "Name"
                    THEN \* k and v are bound to the ids: strings, not ast.Name nodes
                         LET key == translate_type(StrPattern(t.slice.elts[1].id))
                             value == translate_type(StrPattern(t.slice.elts[2].id))
                         IN  IF ~key.ok THEN key
                             ELSE IF ~value.ok THEN value
                             ELSE Ok("map[" \o key.val \o "]" \o value.val)
                    ELSE Err("Bad dict")
                [] t.id = "Optional" -> Err("Optional unsupported")
                [] OTHER -> Err("Bad generic " \o t.id) )
      [] (t.node = "Name" /\ t.id = "int") \/ (t.node = "str" /\ t.s = "int") -> Ok("int")
      [] t.node = "Name" /\ t.id = "float" -> Ok("float64")
      [] t.node = "Name" /\ t.id = "bool" -> Ok("bool")
      [] (t.node = "Name" /\ t.id = "str") \/ (t.node = "str" /\ t.s = "str") -> Ok("string")
      [] t.node = "None" -> Err("implicitly untyped argument")
      [] t.node = "Name" /\ t.id = "Any" -> Ok("any")
      [] t.node = "Name" -> Err("unknown name " \o t.id)
      [] t.node = "Constant" -> Err("no ellipsis!!")      \* any ast.Constant
      [] OTHER -> Err("unknown annotation")


(***************************************************************************)
(* GoTranslator.translate_prompt                                           *)
(***************************************************************************)
Arg(n, t) == [arg |-> n, annotation |-> t]

\* re.sub(DOCSTRING_LINESTART_RE, "\n// ", description.strip()): a docstring is
\* modelled by its lines, each line after the first indented in the source
DocComment(description) == "// " \o Join("\n// ", description) \o "\n"

\* [translate_arg(arg) for arg in args]: the strings, or the first Exception
RECURSIVE translate_args(_)
translate_args(args) ==
    IF args = <<>> THEN [ok |-> TRUE, val |-> <<>>]
    ELSE LET a == translate_type(args[1].annotation)
         IN  IF ~a.ok THEN a
             ELSE LET rest == translate_args(Tail(args))
                  IN  IF ~rest.ok THEN rest
                      ELSE [ok |-> TRUE,
                            val |-> <<args[1].arg \o " " \o a.val>> \o rest.val]

Toplevel(name) ==
    "package " \o name \o "_test\n\nimport (\n    \"testing\"\n    \"fmt\"\n)\n\n"

\* the mutant of translate_prompt: the except clause prints and does not return
translate_prompt_no_return(name, args, returns, description) ==
    LET arg_strings == translate_args(args)
        retType == IF arg_strings.ok THEN translate_type(returns) ELSE arg_strings
        arg_list == IF arg_strings.ok THEN Join(", ", arg_strings.val) ELSE ""
        ret_text == IF arg_strings.ok /\ retType.ok THEN retType.val ELSE ""
    IN  Return(PyStr(Toplevel(name) \o DocComment(description) \o "func " \o name
                     \o "(" \o arg_list \o ") " \o ret_text \o " {\n"))

\* translate_prompt(name, args, returns, description): the prompt text, or None
translate_prompt(name, args, returns, description) ==
    LET arg_strings == translate_args(args)
        retType == IF arg_strings.ok THEN translate_type(returns) ELSE arg_strings
    IN  IF ~arg_strings.ok \/ ~retType.ok
        THEN Return(PyNone)
        ELSE Return(PyStr(Toplevel(name) \o DocComment(description) \o "func " \o name
                          \o "(" \o Join(", ", arg_strings.val) \o ") " \o retType.val
                          \o " {\n"))

\* self.type = [[arg.annotation for arg in args], returns]
StoredType(args, returns) ==
    <<IF args = <<>> THEN <<>> ELSE [i \in 1..Len(args) |-> args[i].annotation], returns>>

(***************************************************************************)
(* The problems handed to the translator                                   *)
(***************************************************************************)
MaxArgs == 2

Primitives == {Name("int"), Name("float"), Name("bool"), Name("str"), Name("Any")}
\* what Go cannot express: Union, Tuple, Optional, and an absent annotation
Unsupported == {Subscript("Union", Tuple(<<Name("int"), Name("str")>>)),
                Subscript("Tuple", Tuple(<<Name("int"), Name("str")>>)),
                Subscript("Optional", Name("int"))}
Rejected == Unsupported \cup {Missing}
ListOf(S) == {Subscript("List", t) : t \in S}
DictOf(K, V) == {Subscript("Dict", Tuple(<<k, v>>)) : k \in K, v \in V}

Nested1 ==
    ListOf({Name("int"), Subscript("Optional", Name("int"))})
    \cup DictOf({Name("str")}, {Name("int"), Name("float"),
                                Subscript("Optional", Name("int"))})
Nested2 ==
    ListOf({Subscript("List", Subscript("Optional", Name("int"))),
            Subscript("Dict", Tuple(<<Name("str"), Name("int")>>))})
    \cup DictOf({Name("str")}, {Subscript("List", Name("int"))})
Annotations == Primitives \cup Rejected \cup Nested1 \cup Nested2

ArgNames == <<"x", "y", "z", "w">>
ArgLists ==
    {<<>>} \cup UNION {{[i \in 1..n |-> Arg(ArgNames[i], ts[i])] : ts \in [1..n -> Annotations]}
                       : n \in 1..MaxArgs}
Docstrings == {<<"Return the sum", "of the list">>}
Problems ==
    {[name |-> "f", args |-> a, returns |-> r, description |-> d] :
        a \in ArgLists, r \in Annotations, d \in Docstrings}
NoProblem == [name |-> "", args |-> <<>>, returns |-> Missing, description |-> <<>>]

(***************************************************************************)
(* State of a translator run                                               *)
(***************************************************************************)
NoCall == [op |-> "none", status |-> "none", val |-> PyNone]
Called(op, outcome) == [op |-> op, status |-> outcome.status, val |-> outcome.val]
\* the source literal of a gen_* call: a constant, a list or a dict
Literal(items, keys, values) == [items |-> items, keys |-> keys, values |-> values]
NoLiteral == Literal(<<>>, <<>>, <<>>)
NotYet == <<"not yet">>

\* GoTranslator.__init__
GoInit ==
    /\ self_type = <<>>
    /\ prev_comp_types = <<>>
    /\ ret = NoCall
    /\ src = NoLiteral
    /\ recorded = FALSE
    /\ list_type = NotYet
    /\ dict_types = NotYet
    /\ first_recorded = NotYet

\* the other programs at rest
SumIdle ==
    /\ dir_exists = FALSE
    /\ out_dir_exists = FALSE
    /\ files = <<>>
    /\ csv = [exists |-> FALSE, rows |-> <<>>]
    /\ sret = [printToShell |-> FALSE, writeToFile |-> FALSE, status |-> "none",
               val |-> "None", at |-> "none", overallOK |-> 0]

TokIdle ==
    /\ tokenizer = [pad_token_id |-> 0, bos_token_id |-> 0, eos_token_id |-> 0,
                    all_special_ids |-> {0}]
    /\ token_id_list = <<>>
    /\ tret = <<>>

\* translator.translate_prompt(...) on the loaded problem
TranslatePrompt ==
    /\ pc = "loaded"
    /\ LET r == translate_prompt(problem.name, problem.args, problem.returns,
                                 problem.description)
       IN  /\ ret' = Called("translate_prompt", r)
           /\ pc' = IF r.val = PyNone THEN "skipped" ELSE "tests"
    /\ self_type' = StoredType(problem.args, problem.returns)
    /\ UNCHANGED <<problem, prev_comp_types, src, recorded, list_type, dict_types,
                   first_recorded, sum_vars, tok_vars>>

\* one problem, one translate_prompt call
InitPrompt ==
    /\ GoInit /\ SumIdle /\ TokIdle
    /\ pc = "loaded"
    /\ problem \in Problems
NextPrompt == TranslatePrompt
SpecPrompt == InitPrompt /\ [][NextPrompt]_vars


(***************************************************************************)
(* GoTranslator: literals                                                  *)
(***************************************************************************)
\* type(c): the class of a value
PyTypeOf(c) == c.pytype
\* the object None, which is no class: type(c) == None compares a class with it
NoneObject == "None"
\* str.lower(), on the texts str(c) gives for a bool
Lower(s) == CASE s = "True" -> "true" [] s = "False" -> "false" [] OTHER -> s

pytype_to_gotype(pytype) ==
    IF pytype = "int" THEN "int"
    ELSE IF pytype = "bool" THEN "bool"
    ELSE IF pytype = "str" THEN "string"
    ELSE IF pytype = "float" THEN "float64"
    ELSE IF pytype = "List[int]" THEN "[]int"
    ELSE "UNKNOWN"

\* gen_literal(c): the Go text of a constant
gen_literal(c) ==
    IF PyTypeOf(c) = "bool" THEN Lower(c.text)
    ELSE IF PyTypeOf(c) = "str" THEN "\"" \o c.text \o "\""
    ELSE IF PyTypeOf(c) = NoneObject THEN "nil"
    ELSE c.text

Texts(l) == IF l = <<>> THEN <<>> ELSE [i \in 1..Len(l) |-> l[i].text]

\* gen_list, lines 195-202: the element type
list_elem_type(l, prev) ==
    IF Len(l) = 0 /\ Len(prev) >= 1 THEN prev[1]
    ELSE IF Len(l) = 0 THEN "int"
    ELSE pytype_to_gotype(PyTypeOf(l[1]))

\* gen_list, lines 204-205: what prev_comp_types is after the call
list_record(prev, elem_type) ==
    IF Len(prev) < 1 THEN <<elem_type>> ELSE prev

\* gen_list(l): str.join raises TypeError on an item that is no str
gen_list(l, prev) ==
    LET elem_type == list_elem_type(l, prev)
    IN  [prev |-> list_record(prev, elem_type),
         out |-> IF \E i \in 1..Len(l) : PyTypeOf(l[i]) # "str"
                 THEN Raise("TypeError")
                 ELSE Return(PyStr("[]" \o elem_type \o "{" \o Join(", ", Texts(l))
                                   \o "}"))]

\* gen_dict, lines 221-234: the key and value types
dict_elem_types(keys, values, prev) ==
    IF (Len(keys) = 0 \/ Len(values) = 0) /\ Len(prev) >= 2 THEN <<prev[1], prev[2]>>
    ELSE IF Len(keys) = 0 \/ Len(values) = 0 THEN <<"string", "int">>
    ELSE <<pytype_to_gotype(PyTypeOf(keys[1])), pytype_to_gotype(PyTypeOf(values[1]))>>

\* gen_dict, lines 236-237
dict_record(prev, types) ==
    IF Len(prev) < 2 THEN types ELSE prev

Min(a, b) == IF a < b THEN a ELSE b
\* f"{k}: {v}" for k, v in zip(keys, values)
Pairs(keys, values) ==
    IF keys = <<>> \/ values = <<>> THEN <<>>
    ELSE [i \in 1..Min(Len(keys), Len(values)) |->
            keys[i].text \o ": " \o values[i].text]

gen_dict(keys, values, prev) ==
    LET types == dict_elem_types(keys, values, prev)
    IN  [prev |-> dict_record(prev, types),
         out |-> Return(PyStr("map[" \o types[1] \o "]" \o types[2] \o "{"
                              \o Join(", ", Pairs(keys, values)) \o "}"))]

(***************************************************************************)
(* The literals of the test cases, and the run of the translator           *)
(***************************************************************************)
MaxLen == 2

Consts == {PyVal("int", "1"), PyTrue, PyFalse, PyStr("a"), PyVal("float", "1.5"), PyNone}
KeyConsts == {PyStr("a"), PyVal("int", "1")}
ValueConsts == {PyVal("int", "1"), PyStr("a"), PyVal("float", "1.5")}
SeqsOf(S, n) == {<<>>} \cup UNION {[1..k -> S] : k \in 1..n}
ListLiterals == SeqsOf(Consts, MaxLen)
\* a dict literal: as many keys as values
DictLiterals ==
    {[keys |-> <<>>, values |-> <<>>]}
    \cup UNION {[keys : [1..k -> KeyConsts], values : [1..k -> ValueConsts]] : k \in 1..MaxLen}

\* the driver's translation of a literal's items, which gen_list and gen_dict
\* receive as List[str]: each item is the text gen_literal returned for it
translate_items(items) ==
    IF items = <<>> THEN <<>>
    ELSE [i \in 1..Len(items) |-> PyStr(gen_literal(items[i]))]

GoProblems ==
    {[name |-> "f", args |-> <<Arg("x", Subscript("List", Name("int")))>>,
      returns |-> Name("int"), description |-> <<"Return the sum", "of the list">>],
     [name |-> "f",
      args |-> <<Arg("x", Subscript("Dict", Tuple(<<Name("str"), Name("int")>>)))>>,
      returns |-> Name("int"), description |-> <<"Return the sum", "of the list">>],
     [name |-> "f", args |-> <<Arg("x", Name("int"))>>,
      returns |-> Subscript("Optional", Name("int")),
      description |-> <<"Return the sum", "of the list">>]}

\* main(translator): the next problem is read; the translator is the one instance
\* built before main is called
LoadProblem ==
    /\ pc \in {"idle", "tests", "skipped"}
    /\ \E p \in GoProblems : problem' = p
    /\ pc' = "loaded"
    /\ recorded' = FALSE
    /\ list_type' = NotYet
    /\ dict_types' = NotYet
    /\ first_recorded' = NotYet
    /\ UNCHANGED <<self_type, prev_comp_types, ret, src, sum_vars, tok_vars>>

GenLiteral ==
    /\ pc = "tests"
    /\ \E c \in Consts :
        /\ src' = Literal(<<c>>, <<>>, <<>>)
        /\ ret' = Called("gen_literal", Return(PyStr(gen_literal(c))))
    /\ UNCHANGED <<pc, problem, self_type, prev_comp_types, recorded, list_type,
                   dict_types, first_recorded, sum_vars, tok_vars>>

GenList ==
    /\ pc = "tests"
    /\ \E s \in ListLiterals :
        LET l == translate_items(s)
            r == gen_list(l, prev_comp_types)
        IN  /\ src' = Literal(s, <<>>, <<>>)
            /\ ret' = Called("gen_list", r.out)
            /\ prev_comp_types' = r.prev
            /\ list_type' = IF s # <<>> THEN <<list_elem_type(l, prev_comp_types)>>
                            ELSE list_type
            /\ first_recorded' = IF recorded THEN first_recorded ELSE r.prev
    /\ recorded' = TRUE
    /\ UNCHANGED <<pc, problem, self_type, dict_types, sum_vars, tok_vars>>

GenDict ==
    /\ pc = "tests"
    /\ \E d \in DictLiterals :
        LET keys == translate_items(d.keys)
            values == translate_items(d.values)
            r == gen_dict(keys, values, prev_comp_types)
        IN  /\ src' = Literal(<<>>, d.keys, d.values)
            /\ ret' = Called("gen_dict", r.out)
            /\ prev_comp_types' = r.prev
            /\ dict_types' = IF d.keys # <<>>
                             THEN dict_elem_types(keys, values, prev_comp_types)
                             ELSE dict_types
            /\ first_recorded' = IF recorded THEN first_recorded ELSE r.prev
    /\ recorded' = TRUE
    /\ UNCHANGED <<pc, problem, self_type, list_type, sum_vars, tok_vars>>

InitGo ==
    /\ GoInit /\ SumIdle /\ TokIdle
    /\ pc = "idle"
    /\ problem = NoProblem
NextGo == LoadProblem \/ TranslatePrompt \/ GenLiteral \/ GenList \/ GenDict
SpecGo == InitGo /\ [][NextGo]_vars


(***************************************************************************)
(* Claims about the Go translator                                          *)
(***************************************************************************)
AnnotationsOf(p) == {p.args[i].annotation : i \in 1..Len(p.args)} \cup {p.returns}

\* a descriptor built from int, float, bool, str, Any with List and Dict
RECURSIVE Mappable(_)
Mappable(t) ==
    CASE t.node = "Name" -> t.id \in {"int", "float", "bool", "str", "Any"}
      [] t.node = "Subscript" /\ t.id = "List" -> Mappable(t.slice)
      [] t.node = "Subscript" /\ t.id = "Dict" ->
            /\ t.slice.node = "Tuple"
            /\ Len(t.slice.elts) = 2
            /\ Mappable(t.slice.elts[1])
            /\ Mappable(t.slice.elts[2])
      [] OTHER -> FALSE

\* the Go type the type mapper is specified to give
RECURSIVE MapType(_)
MapType(t) ==
    CASE t.node = "Name" ->
            ( CASE t.id = "int" -> "int"
                [] t.id = "float" -> "float64"
                [] t.id = "bool" -> "bool"
                [] t.id = "str" -> "string"
                [] OTHER -> "any" )
      [] t.id = "List" -> "[]" \o MapType(t.slice)
      [] OTHER -> "map[" \o MapType(t.slice.elts[1]) \o "]" \o MapType(t.slice.elts[2])

\* C1: on every descriptor built from int, float, bool, str, Any with List and
\* Dict, translate_type returns, without raising, the Go type of the mapping
\* int->int, float->float64, bool->bool, str->string, Any->any, List[T]->[]T',
\* Dict[K,V]->map[K']V'.
C1_MapTypeTotal ==
    ret.op = "translate_prompt" =>
        \A t \in AnnotationsOf(problem) :
            Mappable(t) => translate_type(t) = Ok(MapType(t))

\* Union, Tuple, Optional at any depth, or no annotation
RECURSIVE Offending(_)
Offending(t) ==
    CASE t.node = "None" -> TRUE
      [] t.node = "Subscript" ->
            \/ t.id \in {"Union", "Tuple", "Optional"}
            \/ Offending(t.slice)
      [] t.node = "Tuple" -> \E i \in 1..Len(t.elts) : Offending(t.elts[i])
      [] OTHER -> FALSE

\* C2: when a parameter annotation or the return annotation is Union, Tuple,
\* Optional (at any depth) or absent, translate_type fails on it and
\* translate_prompt returns None: no prompt text at all, wherever the offending
\* annotation stands.
C2_NoPartialPrompt ==
    (ret.op = "translate_prompt" /\ \E t \in AnnotationsOf(problem) : Offending(t)) =>
        /\ \A t \in AnnotationsOf(problem) : Offending(t) => ~translate_type(t).ok
        /\ ret = Called("translate_prompt", Return(PyNone))
        /\ pc = "skipped"

\* C2 witness: the second of two parameters holds Optional two levels deep, the
\* first parameter and the return type are fine, and no prompt was produced
C2_Witness ==
    /\ ret = Called("translate_prompt", Return(PyNone))
    /\ Len(problem.args) = 2
    /\ problem.args[1].annotation = Name("int")
    /\ problem.args[2].annotation =
          Subscript("List", Subscript("List", Subscript("Optional", Name("int"))))
    /\ problem.returns = Name("str")

\* C3: at the start of each problem of a run the inferred element types
\* (prev_comp_types) are empty.
C3_FreshStatePerProblem ==
    pc = "loaded" => prev_comp_types = <<>>

\* C4: within one problem, an empty list (dict) literal translated after a
\* non-empty list (dict) literal is rendered with the element type (key and
\* value types) inferred for that non-empty literal.
C4_CarryForward ==
    /\ (ret.op = "gen_list" /\ src.items = <<>> /\ list_type # NotYet) =>
            ret.val = PyStr("[]" \o list_type[1] \o "{}")
    /\ (ret.op = "gen_dict" /\ src.keys = <<>> /\ dict_types # NotYet) =>
            ret.val = PyStr("map[" \o dict_types[1] \o "]" \o dict_types[2] \o "{}")

\* the value -> Go type map of the literal mapper
InTypeMap(c) == c.pytype \in {"bool", "str", "int", "float"}
LiteralType(c) ==
    CASE c.pytype = "bool" -> "bool"
      [] c.pytype = "str" -> "string"
      [] c.pytype = "int" -> "int"
      [] OTHER -> "float64"
ItemTexts(items) == [i \in 1..Len(items) |-> gen_literal(items[i])]
ItemPairs(d) ==
    [i \in 1..Len(d.keys) |-> gen_literal(d.keys[i]) \o ": " \o gen_literal(d.values[i])]

\* C5: a non-empty list (dict) literal is rendered with the Go type of its
\* first element (first key and first value): bool->bool, str->string,
\* int->int, float->float64; [1, 2, 3] is rendered as []int{1, 2, 3}.
C5_FirstElementType ==
    /\ (ret.op = "gen_list" /\ src.items # <<>> /\ InTypeMap(src.items[1])) =>
            ret.val = PyStr("[]" \o LiteralType(src.items[1]) \o "{"
                            \o Join(", ", ItemTexts(src.items)) \o "}")
    /\ (ret.op = "gen_dict" /\ src.keys # <<>>
            /\ InTypeMap(src.keys[1]) /\ InTypeMap(src.values[1])) =>
            ret.val = PyStr("map[" \o LiteralType(src.keys[1]) \o "]"
                            \o LiteralType(src.values[1]) \o "{"
                            \o Join(", ", ItemPairs(src)) \o "}")

\* C6: gen_literal renders None as nil, True as true and False as false.
C6_NoneAndBool ==
    ret.op = "gen_literal" =>
        /\ src.items[1] = PyNone => ret.val = PyStr("nil")
        /\ src.items[1] = PyTrue => ret.val = PyStr("true")
        /\ src.items[1] = PyFalse => ret.val = PyStr("false")

\* C7: within one problem, once the first list or dict literal has recorded the
\* inferred element types, prev_comp_types keeps the value first recorded.
C7_RecordedOnce ==
    first_recorded # NotYet => prev_comp_types = first_recorded

\* C8: gen_list on an empty list returns "[]T{}", T the first recorded type
\* when a type was recorded in this problem and int otherwise; it never raises.
C8_EmptyList ==
    [][(pc = "tests" /\ pc' = "tests" /\ ret'.op = "gen_list" /\ src'.items = <<>>) =>
          ret' = Called("gen_list",
                        Return(PyStr("[]" \o (IF recorded THEN prev_comp_types[1]
                                              ELSE "int") \o "{}")))]_vars


(***************************************************************************)
(* summary_generator.py: makeSummary                                       *)
(***************************************************************************)
Completions == 200
MaxFiles == 2

\* a results file is its name and how many of its results carry each status

\* the loop over testResults.results
Counts(results) ==
    [OK |-> results.OK, Exception |-> results.Exception,
     OtherError |-> results.SyntaxError + results.Timeout]
SumCounts(counts) == counts.OK + counts.OtherError + counts.Exception

Row(name, counts) ==
    [name |-> name, OK |-> counts.OK, OtherError |-> counts.OtherError,
     Exception |-> counts.Exception]

Finished(status, val, at, file, overallOK) ==
    [status |-> status, val |-> val, at |-> at, csv |-> file, overallOK |-> overallOK]

\* the loop of makeSummary from the i-th results file on, the CSV being `file`
\* and overallOK files counted as solved so far
RECURSIVE summary_loop(_, _, _, _, _, _)
summary_loop(fs, i, file, overallOK, writeToFile, outDir) ==
    IF i > Len(fs) THEN Finished("return", "True", "done", file, overallOK)
    ELSE LET counts == Counts(fs[i].results)
         IN  IF SumCounts(counts) # Completions
             THEN Finished("return", "False", "incomplete", file, overallOK)
             ELSE IF writeToFile /\ ~outDir
             THEN \* open(results_file, "a") in a directory that does not exist
                  Finished("raise", "FileNotFoundError", "open", file, overallOK)
             ELSE LET written == IF writeToFile
                                 THEN [exists |-> TRUE,
                                       rows |-> Append(file.rows, Row(fs[i].name, counts))]
                                 ELSE file
                      solved == IF counts.OK > 0 THEN overallOK + 1 ELSE overallOK
                  IN  IF ~writeToFile
                      THEN \* wrf.close() with wrf never bound
                           Finished("raise", "UnboundLocalError", "close", written, solved)
                      ELSE summary_loop(fs, i + 1, written, solved, writeToFile, outDir)

\* makeSummary(dir, printToShell, writeToFile)
makeSummary(dirExists, fs, file, outDir, writeToFile) ==
    IF ~dirExists THEN Finished("return", "None", "no directory", file, 0)
    ELSE IF file.exists THEN Finished("return", "True", "already run", file, 0)
    ELSE IF Len(fs) = 0 THEN Finished("return", "False", "no results", file, 0)
    ELSE summary_loop(fs, 1, file, 0, writeToFile, outDir)

FileKinds ==
    {[OK |-> 120, Exception |-> 30, SyntaxError |-> 25, Timeout |-> 25],
     [OK |-> 0, Exception |-> 200, SyntaxError |-> 0, Timeout |-> 0],
     [OK |-> 199, Exception |-> 0, SyntaxError |-> 0, Timeout |-> 0],
     [OK |-> 100, Exception |-> 100, SyntaxError |-> 1, Timeout |-> 0],
     [OK |-> 0, Exception |-> 0, SyntaxError |-> 0, Timeout |-> 0]}
FileNames == <<"p1", "p2", "p3", "p4">>
\* sorted(dir.glob("*.results.yaml"))
Directories ==
    {<<>>} \cup UNION {{[i \in 1..n |-> [name |-> FileNames[i], results |-> ks[i]]] :
                           ks \in [1..n -> FileKinds]} : n \in 1..MaxFiles}

MakeSummary ==
    /\ \E printToShell \in BOOLEAN, writeToFile \in BOOLEAN :
        LET r == makeSummary(dir_exists, files, csv, out_dir_exists, writeToFile)
        IN  /\ csv' = r.csv
            /\ sret' = [printToShell |-> printToShell, writeToFile |-> writeToFile,
                        status |-> r.status, val |-> r.val, at |-> r.at,
                        overallOK |-> r.overallOK]
    /\ UNCHANGED <<dir_exists, out_dir_exists, files, go_vars, tok_vars>>

InitSummary ==
    /\ GoInit /\ TokIdle
    /\ pc = "idle"
    /\ problem = NoProblem
    /\ dir_exists \in BOOLEAN
    /\ out_dir_exists \in BOOLEAN
    /\ files \in Directories
    /\ csv = [exists |-> FALSE, rows |-> <<>>]
    /\ sret = [printToShell |-> FALSE, writeToFile |-> FALSE, status |-> "none",
               val |-> "None", at |-> "none", overallOK |-> 0]
NextSummary == MakeSummary
SpecSummary == InitSummary /\ [][NextSummary]_vars

\* C9: when makeSummary returns False because a results file does not hold
\* exactly 200 completions, it has written no row to the summary CSV, so a later
\* call on the same directory processes the files again instead of returning
\* True for a script that was already run.
C9_AbortWritesNothing ==
    [][(sret.at = "incomplete" /\ sret.val = "False") =>
            /\ ~csv.exists
            /\ csv.rows = <<>>
            /\ sret'.at # "already run"]_vars


(***************************************************************************)
(* automodel.py: Model                                                     *)
(***************************************************************************)
MaxTokenId == 2
MaxTokens == 3

TokenIds == 0..MaxTokenId
NoToken == -1                       \* a token id that is None
TokenLists == {<<>>} \cup UNION {[1..n -> TokenIds] : n \in 1..MaxTokens}

\* Model.__init__ from line 23 on: the tokenizer the Model keeps, given the ids
\* of the pretrained tokenizer's pad, bos and eos tokens and its special ids
ModelTokenizer(pad, bos, eos, special) ==
    [pad_token_id |-> IF pad = NoToken THEN eos ELSE pad,
     bos_token_id |-> bos,
     eos_token_id |-> eos,
     all_special_ids |-> special]

\* the assertions of Model.__init__
InitAsserts(tk) ==
    /\ tk.pad_token_id # NoToken
    /\ Cardinality(tk.all_special_ids) >= 1
    /\ tk.pad_token_id \in tk.all_special_ids
    /\ tk.eos_token_id \in tk.all_special_ids

_is_normal_token_id(token_id) == token_id \notin tokenizer.all_special_ids

\* the mutant of _is_pad_or_bos_token_id: the bos token is not looked at
_is_pad_token_id(token_id) == token_id = tokenizer.pad_token_id

_is_pad_or_bos_token_id(token_id) ==
    IF token_id = tokenizer.pad_token_id THEN TRUE
    ELSE IF tokenizer.bos_token_id # NoToken /\ token_id = tokenizer.bos_token_id THEN TRUE
    ELSE FALSE

\* itertools.dropwhile(self._is_pad_or_bos_token_id, l)
RECURSIVE left_padding_removed(_)
left_padding_removed(l) ==
    IF l = <<>> THEN <<>>
    ELSE IF _is_pad_or_bos_token_id(l[1]) THEN left_padding_removed(Tail(l))
    ELSE l

\* itertools.takewhile(self._is_normal_token_id, l)
RECURSIVE right_specials_removed(_)
right_specials_removed(l) ==
    IF l = <<>> THEN <<>>
    ELSE IF _is_normal_token_id(l[1]) THEN <<l[1]>> \o right_specials_removed(Tail(l))
    ELSE <<>>

_remove_padding_and_stop_at_special_tokens(l) ==
    right_specials_removed(left_padding_removed(l))

\* no call yet
NotRun == <<NoToken>>

\* decode_single_output: the call on output_tensor.tolist()
RemovePadding ==
    /\ tret = NotRun
    /\ tret' = _remove_padding_and_stop_at_special_tokens(token_id_list)
    /\ UNCHANGED <<tokenizer, token_id_list, go_vars, sum_vars>>

InitTokens ==
    /\ GoInit /\ SumIdle
    /\ pc = "idle"
    /\ problem = NoProblem
    /\ \E pad \in TokenIds \cup {NoToken}, bos \in TokenIds \cup {NoToken},
          eos \in TokenIds \cup {NoToken}, special \in SUBSET TokenIds :
            /\ InitAsserts(ModelTokenizer(pad, bos, eos, special))
            /\ tokenizer = ModelTokenizer(pad, bos, eos, special)
    /\ token_id_list \in TokenLists
    /\ tret = NotRun
NextTokens == RemovePadding
SpecTokens == InitTokens /\ [][NextTokens]_vars

PadOrBos(t) ==
    t = tokenizer.pad_token_id \/ (tokenizer.bos_token_id # NoToken /\ t = tokenizer.bos_token_id)
\* the least element of a set of indices, or otherwise
First(S, otherwise) == IF S = {} THEN otherwise ELSE CHOOSE i \in S : \A j \in S : i <= j
\* where the result starts: the first token that is neither pad nor bos
StartAt(l) == First({i \in 1..Len(l) : ~PadOrBos(l[i])}, Len(l) + 1)
\* where it stops: the first special token at or after the start
StopAt(l) ==
    First({j \in StartAt(l)..Len(l) : l[j] \in tokenizer.all_special_ids}, Len(l) + 1)

\* C10: the result of _remove_padding_and_stop_at_special_tokens is the slice of
\* the input from the first token that is neither pad nor bos up to, and not
\* including, the first special token at or after it; it holds no special token
\* id, and everything from that special token on is discarded.
C10_SliceBetweenPaddingAndSpecial ==
    tret # NotRun =>
        /\ tret = SubSeq(token_id_list, StartAt(token_id_list), StopAt(token_id_list) - 1)
        /\ \A k \in 1..Len(tret) : tret[k] \notin tokenizer.all_special_ids

\* C10 witness: a bos token that is not the pad token is dropped, the token after
\* it is kept, and the eos token that follows ends the result
C10_Witness ==
    /\ tokenizer.bos_token_id # NoToken
    /\ tokenizer.bos_token_id # tokenizer.pad_token_id
    /\ Len(token_id_list) = 3
    /\ token_id_list[1] = tokenizer.bos_token_id
    /\ token_id_list[2] \notin tokenizer.all_special_ids
    /\ token_id_list[3] = tokenizer.eos_token_id
    /\ tret = <<token_id_list[2]>>

=============================================================================
